---- MODULE Spec2Model ----
(***************************************************************************)
(* A model of funpay_scrapper/lots.py: one Lots object, its constructor,   *)
(* and the three public methods __get_data__, lots_links and sort_lots.    *)
(*                                                                         *)
(* Texts taken from the DOM (element text, attribute values) are sequences *)
(* of one-character strings, so that clean_text and the "(RU)" substring   *)
(* test are computed character by character.  Identifiers, URLs and the    *)
(* fragments of exception messages are TLA+ strings.                       *)
(***************************************************************************)
EXTENDS Integers, Sequences, FiniteSets, TLC

VARIABLES pc, id, url, data, requests, response, call, result, memo

vars == <<pc, id, url, data, requests, response, call, result, memo>>

(***************************************************************************)
(* Bounds of the model.                                                    *)
(***************************************************************************)
MaxItems == 2
MaxLimit == 3
NegLimit == 1

(***************************************************************************)
(* Python values.                                                          *)
(***************************************************************************)
None == <<>>
Some(x) == <<x>>

Return(type, val) == [kind |-> "return", type |-> type, val |-> val]
Raise(exc, parts) == [kind |-> "raise", exc |-> exc, parts |-> parts]

\* The default of lots_links' max_limit parameter.
DefaultMaxLimit == 20

IntArg(n) == [type |-> "int", val |-> n]
NoneArg == [type |-> "NoneType", val |-> 0]
StrArg == [type |-> "str", val |-> 0]

(***************************************************************************)
(* str(ID) for a non-negative integer.                                     *)
(***************************************************************************)
Digit == <<"0", "1", "2", "3", "4", "5", "6", "7", "8", "9">>

RECURSIVE str(_)
str(n) ==
    IF n < 10 THEN Digit[n + 1] ELSE str(n \div 10) \o Digit[(n % 10) + 1]

(***************************************************************************)
(* clean_text: re.sub(r'\s+', ' ', text).strip()                           *)
(***************************************************************************)
Whitespace == {" ", "\n", "\t"}

RECURSIVE lstrip(_)
lstrip(text) ==
    IF text = <<>> THEN <<>>
    ELSE IF Head(text) \in Whitespace THEN lstrip(Tail(text))
    ELSE text

RECURSIVE rstrip(_)
rstrip(text) ==
    IF text = <<>> THEN <<>>
    ELSE IF text[Len(text)] \in Whitespace THEN rstrip(SubSeq(text, 1, Len(text) - 1))
    ELSE text

strip(text) == rstrip(lstrip(text))

\* re.sub(r'\s+', ' ', text): every maximal whitespace run becomes one space.
RECURSIVE sub_ws(_)
sub_ws(text) ==
    IF text = <<>> THEN <<>>
    ELSE IF Head(text) \in Whitespace THEN <<" ">> \o sub_ws(lstrip(Tail(text)))
    ELSE <<Head(text)>> \o sub_ws(Tail(text))

clean_text(text) == strip(sub_ws(text))

\* Python's `sub in s` on strings.
Contains(s, sub) ==
    \E i \in 0..(Len(s) - Len(sub)) : SubSeq(s, i + 1, i + Len(sub)) = sub

Unknown == <<"U", "n", "k", "n", "o", "w", "n">>
RU == <<"(", "R", "U", ")">>

(***************************************************************************)
(* The parsed document.  A candidate is an <a class="tc-item"> element;    *)
(* each field is None when the element the code looks for is missing, and  *)
(* the element's raw text (the attribute's value for href) otherwise.      *)
(*   href   : the href attribute                                           *)
(*   desc   : <div class="tc-desc-text">                                   *)
(*   price  : <div class="tc-price">                                       *)
(*   server : <div class="tc-server hidden-xs">                            *)
(*   pin    : whether a <div class="sc-offer-icons"> is present            *)
(* A document says whether building or walking the tree raises, whether a  *)
(* <div class="showcase-table"> exists, and lists the tc-item links in     *)
(* document order (inside the container when there is one).                *)
(***************************************************************************)
Node(href, desc, price, server, pin) ==
    [href |-> href, desc |-> desc, price |-> price, server |-> server, pin |-> pin]

HrefA == <<"/", "a">>
DescGold == <<"\n", " ", "G", "o", "l", "d", "\n">>
Price10 == <<"1", "0", " ", "\n", " ", "$">>
Price5 == <<" ", "5", " ", "$">>
Price20 == <<"2", "0", "\t", "$", " ">>
ServerEU == <<"\n", "E", "U", " ">>
ServerRU == <<" ", "S", "\n", "(", "R", "U", ")", "\n">>
ServerR_U == <<"(", "R", " ", "U", ")">>

NodeEU10 == Node(Some(HrefA), Some(DescGold), Some(Price10), Some(ServerEU), FALSE)
NodeRU5 == Node(Some(HrefA), None, Some(Price5), Some(ServerRU), FALSE)
NodePinned20 == Node(Some(HrefA), Some(DescGold), Some(Price20), Some(ServerEU), TRUE)
NodeBare == Node(None, None, None, None, FALSE)
NodeNear5 == Node(Some(HrefA), Some(DescGold), Some(Price5), Some(ServerR_U), FALSE)

NodeSet == {NodeEU10, NodeRU5, NodePinned20, NodeBare, NodeNear5}

\* The three-candidate document of the end-to-end example.
ExampleItems == <<NodeEU10, NodeRU5, NodePinned20>>

ItemSeqs == UNION {[1..n -> NodeSet] : n \in 0..MaxItems} \cup {ExampleItems}

Document(raises, showcase, items) ==
    [raises |-> raises, showcase |-> showcase, items |-> items]

Documents ==
    {Document(FALSE, s, it) : s \in BOOLEAN, it \in ItemSeqs}
        \cup {Document(TRUE, TRUE, <<>>)}

StatusCodes == {200, 404, 500}
Responses == [status_code : StatusCodes, text : Documents]

\* What the server would answer to a later GET of the same URL.
LaterResponses ==
    [status_code : {200, 404},
     text : {Document(FALSE, FALSE, <<>>), Document(FALSE, TRUE, <<NodeEU10>>)}]

IDs == {42}
MaxLimits ==
    {IntArg(n) : n \in (0 - NegLimit)..MaxLimit} \cup {IntArg(10), NoneArg, StrArg}
SortTokens == {"lowest", "highest", "Lowest", "price"}

(***************************************************************************)
(* Lots.__init__ (the attributes) and Lots.__get_data__                    *)
(***************************************************************************)
\* f"https://funpay.com/en/lots/{id}/" or f"https://funpay.com/chips/{id}/"
make_url(theId) ==
    LET first == "https://funpay.com/en/lots/" \o theId \o "/"
        second == "https://funpay.com/chips/" \o theId \o "/"
    IN  IF first # "" THEN first ELSE second

\* Mutant of get_data: the status code is not looked at.
get_data_any_status(theData, theId, resp) ==
    IF theData = None
    THEN [data |-> Some(resp.text), issued |-> 1, got |-> Some(resp),
          result |-> Return("str", resp.text)]
    ELSE [data |-> theData, issued |-> 0, got |-> None,
          result |-> Return("str", theData[1])]

\* Mutant of get_data: the document is fetched again on every call.
get_data_always_fetch(theData, theId, resp) ==
    IF resp.status_code = 200
    THEN [data |-> Some(resp.text), issued |-> 1, got |-> Some(resp),
          result |-> Return("str", resp.text)]
    ELSE [data |-> theData, issued |-> 1, got |-> Some(resp),
          result |-> Raise("Exception",
                           <<"Error getting data for ID: ", theId,
                             ". Status code: ", str(resp.status_code)>>)]

\* The outcome of one __get_data__ call: the new self.data, what the call
\* returns or raises, and the response received when a GET was issued.
\* `resp` is what the server answers if it is asked.
get_data(theData, theId, resp) ==
    IF theData = None
    THEN IF resp.status_code = 200
         THEN [data |-> Some(resp.text), issued |-> 1, got |-> Some(resp),
               result |-> Return("str", resp.text)]
         ELSE [data |-> theData, issued |-> 1, got |-> Some(resp),
               result |-> Raise("Exception",
                                <<"Error getting data for ID: ", theId,
                                  ". Status code: ", str(resp.status_code)>>)]
    ELSE [data |-> theData, issued |-> 0, got |-> None,
          result |-> Return("str", theData[1])]

(***************************************************************************)
(* Lots.lots_links                                                         *)
(***************************************************************************)
\* Mutant of slice: one candidate too many, seq[:stop + 1].
slice_one_more(seq, stop) ==
    IF stop.type = "NoneType" THEN seq
    ELSE IF stop.val + 1 >= 0
         THEN SubSeq(seq, 1, IF stop.val + 1 < Len(seq) THEN stop.val + 1 ELSE Len(seq))
         ELSE SubSeq(seq, 1, Len(seq) + stop.val + 1)

\* seq[:stop] for an int or None stop.
slice(seq, stop) ==
    IF stop.type = "NoneType" THEN seq
    ELSE IF stop.val >= 0
         THEN SubSeq(seq, 1, IF stop.val < Len(seq) THEN stop.val ELSE Len(seq))
         ELSE SubSeq(seq, 1, Len(seq) + stop.val)

\* Mutant of field_text: a missing element gives the empty text.
field_text_blank(opt) == IF opt = None THEN <<>> ELSE clean_text(opt[1])

\* element.text cleaned, or 'Unknown' when the element is missing.
field_text(opt) == IF opt = None THEN Unknown ELSE clean_text(opt[1])

\* lot.get("href", "Unknown")
get_href(lot) == IF lot.href = None THEN Unknown ELSE lot.href[1]

\* Mutant of keep: the pinned-offer marker is not looked at.
keep_ignoring_pin(lot) ==
    ~Contains(IF lot.server = None THEN Unknown ELSE clean_text(lot.server[1]), RU)

\* if "(RU)" not in server and not check_for_pin_element
keep(lot) == ~Contains(field_text(lot.server), RU) /\ ~lot.pin

record(lot) ==
    [href |-> get_href(lot), info |-> field_text(lot.desc),
     cost |-> field_text(lot.price), server |-> field_text(lot.server)]

\* The positions, in document order, of the candidates of `lots` whose
\* record is appended.
RECURSIVE appended(_, _)
appended(lots, n) ==
    IF n = 0 THEN <<>>
    ELSE IF keep(lots[n]) THEN Append(appended(lots, n - 1), n)
    ELSE appended(lots, n - 1)

\* Mutant of lots_links_try: the candidates are filtered first and the
\* survivors cut to max_limit.
lots_links_try_filter_first(doc, max_limit) ==
    IF doc.raises THEN Raise("Exception", <<"parser">>)
    ELSE IF ~doc.showcase THEN Return("list", <<>>)
    ELSE IF max_limit.type \notin {"int", "NoneType"}
    THEN Raise("TypeError", <<"slice indices must be integers or None">>)
    ELSE LET at == appended(doc.items, Len(doc.items))
             all == [i \in 1..Len(at) |-> record(doc.items[at[i]])]
         IN  Return("list", slice(all, max_limit))

\* The body of the try block.
lots_links_try(doc, max_limit) ==
    IF doc.raises THEN Raise("Exception", <<"parser">>)
    ELSE IF ~doc.showcase THEN Return("list", <<>>)
    ELSE IF max_limit.type \notin {"int", "NoneType"}
    THEN Raise("TypeError", <<"slice indices must be integers or None">>)
    ELSE LET lots == slice(doc.items, max_limit)
             at == appended(lots, Len(lots))
         IN  Return("list", [i \in 1..Len(at) |-> record(lots[at[i]])])

\* Mutant of lots_links: no except clause, the exception reaches the caller.
lots_links_no_except(theData, max_limit) ==
    IF theData = None
    THEN Raise("TypeError", <<"NoneType">>)
    ELSE lots_links_try(theData[1], max_limit)

\* except Exception: print(...); return []
lots_links(theData, max_limit) ==
    LET r == IF theData = None
             THEN Raise("TypeError", <<"NoneType">>)
             ELSE lots_links_try(theData[1], max_limit)
    IN  IF r.kind = "raise" THEN Return("list", <<>>) ELSE r

(***************************************************************************)
(* Lots.sort_lots                                                          *)
(***************************************************************************)
DigitChars == {Digit[i] : i \in 1..10}
DigitValue(c) == (CHOOSE i \in 1..10 : Digit[i] = c) - 1

\* cost.split(sep=" ")[0]
RECURSIVE first_token(_)
first_token(text) ==
    IF text = <<>> \/ Head(text) = " " THEN <<>>
    ELSE <<Head(text)>> \o first_token(Tail(text))

\* float(token), for the tokens made of decimal digits; any other token of
\* the model's texts is one float() rejects.
IsFloat(token) == token # <<>> /\ \A i \in 1..Len(token) : token[i] \in DigitChars

RECURSIVE float(_)
float(token) ==
    IF Len(token) = 1 THEN DigitValue(token[1])
    ELSE 10 * float(SubSeq(token, 1, Len(token) - 1)) + DigitValue(token[Len(token)])

\* key=lambda x: float(x[1]["cost"].split(sep=" ")[0])
cost_token(item) == first_token(item[2].cost)

\* sorted(items, key=..., reverse=...): stable in both directions.
RECURSIVE sorted(_, _)
sorted(items, reverse) ==
    IF items = <<>> THEN <<>>
    ELSE LET n == Len(items)
             x == items[n]
             before == sorted(SubSeq(items, 1, n - 1), reverse)
             k == float(cost_token(x))
             stays(y) == IF reverse THEN float(cost_token(y)) >= k
                                    ELSE float(cost_token(y)) <= k
         IN  SelectSeq(before, stays) \o <<x>>
                 \o SelectSeq(before, LAMBDA y : ~stays(y))

\* value.items(): only a dict has the attribute.
items_of(value) ==
    IF value.type = "dict" THEN Return("dict_items", value.val)
    ELSE Raise("AttributeError",
               <<"'", value.type, "' object has no attribute '", "items", "'">>)

sort_by_cost(value, reverse) ==
    LET its == items_of(value)
    IN  IF its.kind = "raise" THEN its
        ELSE IF \E i \in 1..Len(its.val) : ~IsFloat(cost_token(its.val[i]))
        THEN Raise("ValueError", <<"could not convert string to float">>)
        ELSE Return("dict", sorted(its.val, reverse))

\* Mutant of sort_lots: no else branch, an unknown token returns the
\* records unsorted.
sort_lots_no_else(theData, sort_by) ==
    LET links == lots_links(theData, IntArg(DefaultMaxLimit))
    IN  IF sort_by = "lowest" THEN sort_by_cost(links, FALSE)
        ELSE IF sort_by = "highest" THEN sort_by_cost(links, TRUE)
        ELSE links

sort_lots(theData, sort_by) ==
    LET links == lots_links(theData, IntArg(DefaultMaxLimit))
    IN  IF sort_by = "lowest" THEN sort_by_cost(links, FALSE)
        ELSE IF sort_by = "highest" THEN sort_by_cost(links, TRUE)
        ELSE Raise("ValueError",
                   <<"Invalid sort_by parameter. Only 'lowest' and 'highest' are accepted.">>)

(***************************************************************************)
(* The object's life: construction, then any calls of its methods.         *)
(*   pc       "new" before Lots(ID), "ready" once __init__ returned,       *)
(*            "failed" when __init__ raised (no object reaches the caller) *)
(*   requests the number of HTTP GETs issued so far                        *)
(*   response the last HTTP response received, or None                     *)
(*   call     the last call made and its arguments                         *)
(*   result   what that call returned or raised; for __init__, the outcome *)
(*            of the __get_data__() call it ends with                      *)
(*   memo     an observer: one earlier lots_links call (its argument, its  *)
(*            result, and how many calls followed it, counted up to 2),    *)
(*            kept for comparison with later ones                          *)
(***************************************************************************)
Call(op, ID, max_limit, sort_by) ==
    [op |-> op, ID |-> ID, max_limit |-> max_limit, sort_by |-> sort_by]

\* The observer after one more call.
Later(m) ==
    IF m = None THEN m
    ELSE Some([m[1] EXCEPT !.later = IF @ < 2 THEN @ + 1 ELSE @])

Init ==
    /\ pc = "new"
    /\ id = ""
    /\ url = ""
    /\ data = None
    /\ requests = 0
    /\ response = None
    /\ call = Call("none", 0, NoneArg, "")
    /\ result = Return("NoneType", None)
    /\ memo = None

\* Lots(ID): lines 27-31.
Construct ==
    /\ pc = "new"
    /\ \E ID \in IDs, resp \in Responses :
         LET theId == str(ID)
             out == get_data(None, theId, resp)
         IN  /\ id' = theId
             /\ url' = make_url(theId)
             /\ data' = out.data
             /\ requests' = requests + out.issued
             /\ response' = out.got
             /\ result' = out.result
             /\ pc' = IF out.result.kind = "raise" THEN "failed" ELSE "ready"
             /\ call' = Call("__init__", ID, NoneArg, "")
    /\ UNCHANGED memo

\* obj.__get_data__() on the constructed object.
CallGetData ==
    /\ pc = "ready"
    /\ \E resp \in LaterResponses :
         LET out == get_data(data, id, resp)
         IN  /\ data' = out.data
             /\ requests' = requests + out.issued
             /\ response' = IF out.issued = 1 THEN out.got ELSE response
             /\ result' = out.result
    /\ call' = Call("__get_data__", 0, NoneArg, "")
    /\ memo' = Later(memo)
    /\ UNCHANGED <<pc, id, url>>

\* Mutant of CallLotsLinks: the call keeps the truncated candidates in
\* place of the stored document.
CallLotsLinks_keeps_slice ==
    /\ pc = "ready"
    /\ \E max_limit \in MaxLimits, remember \in BOOLEAN :
         /\ result' = lots_links(data, max_limit)
         /\ call' = Call("lots_links", 0, max_limit, "")
         /\ data' = IF max_limit.type = "str" THEN data
                    ELSE Some([data[1] EXCEPT !.items = slice(@, max_limit)])
         /\ memo' = IF memo = None /\ remember
                    THEN Some([max_limit |-> max_limit, result |-> result',
                               later |-> 0])
                    ELSE Later(memo)
    /\ UNCHANGED <<pc, id, url, requests, response>>

\* obj.lots_links(max_limit)
CallLotsLinks ==
    /\ pc = "ready"
    /\ \E max_limit \in MaxLimits, remember \in BOOLEAN :
         /\ result' = lots_links(data, max_limit)
         /\ call' = Call("lots_links", 0, max_limit, "")
         /\ memo' = IF memo = None /\ remember
                    THEN Some([max_limit |-> max_limit, result |-> result',
                               later |-> 0])
                    ELSE Later(memo)
    /\ UNCHANGED <<pc, id, url, data, requests, response>>

\* obj.sort_lots(sort_by)
CallSortLots ==
    /\ pc = "ready"
    /\ \E sort_by \in SortTokens :
         /\ result' = sort_lots(data, sort_by)
         /\ call' = Call("sort_lots", 0, NoneArg, sort_by)
    /\ memo' = Later(memo)
    /\ UNCHANGED <<pc, id, url, data, requests, response>>

Next == Construct \/ CallGetData \/ CallLotsLinks \/ CallSortLots

Spec == Init /\ [][Next]_vars

(***************************************************************************)
(* Vocabulary of the properties, stated on the document and not through    *)
(* the operators above.                                                    *)
(***************************************************************************)
Extracted == call.op = "lots_links"
NonNegative(arg) == arg.type = "int" /\ arg.val >= 0

\* The tc-item links of the container, and the first k of them.
ContainerItems(doc) == IF doc.showcase THEN doc.items ELSE <<>>
FirstOf(seq, k) == SubSeq(seq, 1, IF k < Len(seq) THEN k ELSE Len(seq))

RegionHasRU(node) == node.server # None /\ Contains(node.server[1], RU)
Qualifies(node) == ~node.pin /\ ~RegionHasRU(node)

\* The record a candidate stands for.
Expected(node) ==
    [href |-> IF node.href = None THEN Unknown ELSE node.href[1],
     info |-> IF node.desc = None THEN Unknown ELSE clean_text(node.desc[1]),
     cost |-> IF node.price = None THEN Unknown ELSE clean_text(node.price[1]),
     server |-> IF node.server = None THEN Unknown ELSE clean_text(node.server[1])]

HasRecordOf(node) == \E i \in 1..Len(result.val) : result.val[i] = Expected(node)

\* C1: for a stored document and an integer maxCount >= 0, lots_links
\* returns a sequence of at most maxCount records.
C1_LengthAtMostMaxCount ==
    (Extracted /\ NonNegative(call.max_limit))
        => /\ result.kind = "return"
           /\ Len(result.val) <= call.max_limit.val

\* C1 witness: a document with more qualifying candidates than maxCount,
\* cut down to maxCount records.
C1_Witness ==
    /\ Extracted
    /\ call.max_limit = IntArg(1)
    /\ data[1] = Document(FALSE, TRUE, <<NodeEU10, NodeNear5>>)
    /\ Len(result.val) = 1

\* C2: no record returned by lots_links has a region text containing
\* "(RU)", and every returned record comes from a candidate without a
\* pinned-offer marker (and without "(RU)" in its raw region text).
C2_NoRUNoPinned ==
    Extracted =>
        /\ result.kind = "return"
        /\ \A i \in 1..Len(result.val) : ~Contains(result.val[i].server, RU)
        /\ result.val # <<>> =>
             LET lots == slice(data[1].items, call.max_limit)
                 at == appended(lots, Len(lots))
             IN  /\ Len(at) = Len(result.val)
                 /\ \A i \in 1..Len(at) :
                      /\ result.val[i] = Expected(lots[at[i]])
                      /\ ~lots[at[i]].pin
                      /\ ~RegionHasRU(lots[at[i]])

\* C2 witness: the example document, extracted whole: the "(RU)" candidate
\* and the pinned candidate are both among the candidates, one record is
\* returned.
C2_Witness ==
    /\ Extracted
    /\ call.max_limit = IntArg(3)
    /\ data[1] = Document(FALSE, TRUE, ExampleItems)
    /\ Len(result.val) = 1

\* The numeric price of a record: its first space-separated token as a number.
Numeric(rec) == IsFloat(first_token(rec.cost))
PriceOf(rec) == float(first_token(rec.cost))

\* C3 (as claimed): when extraction yields records whose prices all start
\* with a numeric token, sort_lots("lowest") returns them in non-decreasing
\* price order and sort_lots("highest") in non-increasing price order.
C3_SortedByPrice ==
    LET links == lots_links(data, IntArg(DefaultMaxLimit)).val
    IN  (/\ call.op = "sort_lots"
         /\ call.sort_by \in {"lowest", "highest"}
         /\ links # <<>>
         /\ \A i \in 1..Len(links) : Numeric(links[i]))
            => /\ result.kind = "return"
               /\ Len(result.val) = Len(links)
               /\ \A i \in 1..Len(links) :
                    Cardinality({j \in 1..Len(links) : links[j] = links[i]})
                        = Cardinality({j \in 1..Len(links) : result.val[j] = links[i]})
               /\ \A i \in 1..(Len(links) - 1) :
                    IF call.sort_by = "lowest"
                    THEN PriceOf(result.val[i]) <= PriceOf(result.val[i + 1])
                    ELSE PriceOf(result.val[i]) >= PriceOf(result.val[i + 1])

InvalidMessage ==
    <<"Invalid sort_by parameter. Only 'lowest' and 'highest' are accepted.">>

C5_FetchByStatus ==
    call.op = "__init__" =>
        /\ response # None
        /\ id = str(call.ID)
        /\ IF response[1].status_code = 200
           THEN /\ pc = "ready"
                /\ data = Some(response[1].text)
                /\ result = Return("str", response[1].text)
           ELSE /\ pc = "failed"
                /\ data = None
                /\ result.kind = "raise"
                /\ \E i \in 1..Len(result.parts) : result.parts[i] = id
                /\ \E i \in 1..Len(result.parts) :
                     result.parts[i] = str(response[1].status_code)

\* C5 witness: Lots(42) answered 404 has raised an error carrying "42" and
\* "404".
C5_Witness ==
    /\ call.op = "__init__"
    /\ response # None
    /\ response[1].status_code = 404
    /\ result.kind = "raise"
    /\ result.parts[2] = "42"
    /\ result.parts[4] = "404"

\* C6: at most one HTTP GET is issued over the object's life, and
\* __get_data__ on the constructed object returns the stored document.
C6_AtMostOneGet ==
    /\ requests <= 1
    /\ call.op = "__get_data__" =>
         /\ data # None
         /\ result = Return("str", data[1])
         /\ response # None
         /\ data[1] = response[1].text

\* C6 witness: __get_data__ was called after construction and the only GET
\* is the constructor's.
C6_Witness ==
    /\ call.op = "__get_data__"
    /\ requests = 1
    /\ result.kind = "return"

\* C7: lots_links never raises; it returns the empty list when the
\* document is empty, has no showcase-table container, or raises while
\* being parsed, and when slicing raises.
C7_NeverRaises ==
    Extracted =>
        /\ result.kind = "return"
        /\ result.type = "list"
        /\ (\/ data[1].raises
            \/ ~data[1].showcase
            \/ data[1].items = <<>>
            \/ call.max_limit.type = "str") => result.val = <<>>

\* C7 witness: extraction from a document whose parsing raises returned [].
C7_Witness ==
    /\ Extracted
    /\ data[1].raises
    /\ result = Return("list", <<>>)

\* C8 (as claimed): every unpinned candidate among the first maxCount has a
\* record in the result, with "Unknown" in each field whose element is
\* missing.
C8_UnpinnedIncluded ==
    (Extracted /\ NonNegative(call.max_limit) /\ ~data[1].raises)
        => \A j \in 1..Len(FirstOf(ContainerItems(data[1]), call.max_limit.val)) :
             LET node == ContainerItems(data[1])[j]
             IN  ~node.pin => HasRecordOf(node)

\* C8 (amended): every candidate among the first maxCount that is unpinned
\* and whose region text does not contain "(RU)" has a record in the
\* result, with "Unknown" in each field whose element is missing; a
\* candidate without a region element is such a candidate.
C8_MissingFieldsUnknown ==
    (Extracted /\ NonNegative(call.max_limit) /\ ~data[1].raises)
        => \A j \in 1..Len(FirstOf(ContainerItems(data[1]), call.max_limit.val)) :
             LET node == ContainerItems(data[1])[j]
             IN  /\ (~node.pin /\ ~RegionHasRU(node)) => HasRecordOf(node)
                 /\ (~node.pin /\ node.server = None)
                      => \E i \in 1..Len(result.val) :
                           /\ result.val[i] = Expected(node)
                           /\ result.val[i].server = Unknown

\* C8 witness: a candidate with no sub-element at all is returned as a
\* record of four "Unknown".
C8_Witness ==
    /\ Extracted
    /\ call.max_limit = IntArg(2)
    /\ data[1] = Document(FALSE, TRUE, <<NodeEU10, NodeBare>>)
    /\ Len(result.val) = 2
    /\ result.val[2] =
         [href |-> Unknown, info |-> Unknown, cost |-> Unknown, server |-> Unknown]

\* C9: the result is, in document order, the records of the qualifying
\* candidates among the first maxCount tc-item links of the container, and
\* the three-candidate example with maxCount = 10 gives the one record
\* priced "10 $".
C9_TruncateThenFilter ==
    (Extracted /\ NonNegative(call.max_limit) /\ ~data[1].raises)
        => LET q == SelectSeq(FirstOf(ContainerItems(data[1]), call.max_limit.val),
                              Qualifies)
           IN  /\ result = Return("list", [i \in 1..Len(q) |-> Expected(q[i])])
               /\ (data[1] = Document(FALSE, TRUE, ExampleItems)
                      /\ call.max_limit = IntArg(10))
                    => /\ Len(result.val) = 1
                       /\ result.val[1].cost = <<"1", "0", " ", "$">>

\* C9 witness: with maxCount = 1 the qualifying second candidate is lost
\* behind a filtered first one, and nothing is returned.
C9_Witness ==
    /\ Extracted
    /\ call.max_limit = IntArg(1)
    /\ data[1] = Document(FALSE, TRUE, <<NodeRU5, NodeEU10>>)
    /\ result = Return("list", <<>>)

\* C10: a lots_links or sort_lots call leaves id, url and data as they
\* were, and a lots_links call returns what an earlier lots_links call with
\* the same max_limit returned, whatever was called in between.
C10_CallsKeepState ==
    /\ [][call'.op \in {"lots_links", "sort_lots"}
            => (id' = id /\ url' = url /\ data' = data)]_vars
    /\ [](((Extracted /\ memo # None) /\ memo[1].max_limit = call.max_limit)
            => result = memo[1].result)

\* C10 witness: a lots_links call repeats an earlier one with another call
\* in between, and returned records.
C10_Witness ==
    /\ Extracted
    /\ memo # None
    /\ memo[1].later = 2
    /\ memo[1].max_limit = call.max_limit
    /\ result.val # <<>>

====
